---- MODULE Spec2Model ----
(***************************************************************************)
(* Bad Data Workshop generator (bad_data_workshop.py).                     *)
(*                                                                         *)
(* The module models one target database and the processes that main()     *)
(* runs against it: setup_workshop (scale controller, connect,             *)
(* create_schema, the fifteen generators, close), teardown_workshop and    *)
(* show_diagnostics.  Every driver call may return, raise an Exception or  *)
(* be hit by a KeyboardInterrupt.  Rows are counted, not enumerated: a     *)
(* table of the target is a name with a row count.                         *)
(***************************************************************************)
EXTENDS Integers, Sequences, FiniteSets, TLC

VARIABLES
    cmd,          \* args.command of the running process
    db_type,      \* config.db_type (the kind of the target)
    scale,        \* args.scale
    rnd,          \* the outcomes the seeded random source produces (a profile)
    runs,         \* processes started so far against the target
    afterSetup,   \* the last setup or teardown that returned 0 was a setup
    pc,           \* position of the running process
    exc,          \* the exception propagating, or "none"
    exit_code,    \* main()'s return value, -1 while running
    connection,   \* DatabaseAdapter.connection: "None", "open", "closed"
    cursor,       \* DatabaseAdapter.cursor: "None", "open", "closed"
    base_rows,    \* setup_workshop: base_rows
    problems,     \* setup_workshop: the row counts of the problems list
    k,            \* index of the problem the for loop is at (0 before it)
    gpc,          \* index of the generator's current step in its plan
    batch_start,  \* the generator's loop cursor
    committed,    \* the target: what has been made durable
    working,      \* the target as the open session sees it
    to_drop,      \* MySQLAdapter.drop_schema: tables fetched and not yet dropped
    lastOp,       \* the last adapter operation the process issued
    lastBatch,    \* the batch the running generator handed to executemany last:
                  \* <<table, cursor, times handed over, rows>>
    closeCalls,   \* calls of close() by the running process
    closeRaised,  \* close() was left by an exception
    opAfterClose, \* an adapter operation was issued after close() was called
    failed,       \* an execute/executemany/commit/fetchall of this process has raised
    stmtAfterFail, \* a statement was issued after one had raised
    shown         \* the entries show_diagnostics has written to the console

\* what is recorded of the data two processes generate
VARIABLES
    today,        \* the wall clock: the current UTC date, as a day number
    stream,       \* the values random.seed(42) makes the source return, in order
    det_run,      \* which of the two processes runs (0: none)
    det_pc,       \* where it is
    rng_pos,      \* how far into the stream the process-wide source is
    now,          \* problem_10's local "now"
    p10_rows,     \* the rows problem_10 has built
    datasets      \* the rows of each finished process

Det == <<today, stream, det_run, det_pc, rng_pos, now, p10_rows, datasets>>

\* one generator's rows, value by value
VARIABLES
    gen_id,       \* the problem whose rows are built (0: none)
    num_rows,     \* its num_rows
    draws,        \* what the random source returns for each row (or user)
    syn_pc,       \* where the generator is
    row_i,        \* its loop variable i
    buf,          \* its list "rows"
    batches,      \* the lists handed to executemany for the main table, in order
    ref_rows,     \* the list handed to executemany for the seeded table
    calls         \* the adapter calls made so far: <<method, table>>

Synth == <<gen_id, num_rows, draws, syn_pc, row_i, buf, batches, ref_rows, calls>>

vars == <<Det, Synth, cmd, db_type, scale, rnd, runs, afterSetup, pc, exc, exit_code, connection, cursor,
          base_rows, problems, k, gpc, batch_start, committed, working, to_drop,
          lastOp, lastBatch, closeCalls, closeRaised, opAfterClose, failed,
          stmtAfterFail, shown>>

-----------------------------------------------------------------------------
(* Bounds of the model *)

\* processes run one after another against the same target
MaxRuns == 2

-----------------------------------------------------------------------------
(* Program constants *)

SCHEMA_NAME == "bad_data_workshop"

batch_size == 1000

NumProblems == 15

ProductRows == 100

AccountRows == 1000

DefaultBase == 10000

DBTypes == {"postgres", "mysql", "redshift"}

Commands == {"setup", "teardown", "diagnose"}

\* the five tokens argparse accepts
ScaleTokens == {"tiny", "small", "medium", "large", "xlarge"}

\* setup_workshop: scales
scales ==
    [s \in ScaleTokens |->
        CASE s = "tiny"   -> 100
          [] s = "small"  -> 10000
          [] s = "medium" -> 100000
          [] s = "large"  -> 500000
          [] s = "xlarge" -> 1000000]

\* scales.get(scale, 10_000)
ScaleBase(s) == IF s \in DOMAIN scales THEN scales[s] ELSE DefaultBase

\* Problems with the multipliers of problems 13 and 14 exchanged
Problems_SwappedMultipliers(base) ==
    [i \in 1..NumProblems |->
        CASE i = 13 -> base * 5
          [] i = 14 -> base * 2
          [] OTHER  -> base]

\* the third component of every entry of the problems list
Problems(base) ==
    [i \in 1..NumProblems |->
        CASE i = 13 -> base * 2
          [] i = 14 -> base * 5
          [] OTHER  -> base]

-----------------------------------------------------------------------------
(* Backend adapter: dialect *)

\* get_table_prefix(), one token per character of the mysql prefix
get_table_prefix(t) ==
    IF t = "mysql" THEN <<"b", "d", "w", "_">> ELSE <<SCHEMA_NAME, ".">>

\* Qualified with the bare name alone
Qualified_Bare(t, bare) == <<bare>>

\* the name a statement uses for a table: f"{prefix}bare"
Qualified(t, bare) == get_table_prefix(t) \o <<bare>>

\* how the server resolves a statement's table name: schema.table or a table of
\* the current database
Resolve(q) ==
    IF Len(q) >= 2 /\ q[2] = "."
    THEN [ns |-> q[1], name |-> SubSeq(q, 3, Len(q))]
    ELSE [ns |-> "", name |-> q]

TableId(t, bare) == Resolve(Qualified(t, bare))

\* table_name LIKE 'bdw_%': b, d, w, any one character, then anything
LikeBdw(name) ==
    /\ Len(name) >= 4
    /\ name[1] = "b"
    /\ name[2] = "d"
    /\ name[3] = "w"

-----------------------------------------------------------------------------
(* The fifteen generators: the adapter calls each one makes, in order *)

Step(op, table, rows) == [op |-> op, table |-> table, rows |-> rows]

\* the table each generator fills with num_rows rows
MainTable(i) ==
    CASE i = 1  -> "customers_no_pk"
      [] i = 2  -> "orders_no_fk"
      [] i = 3  -> "transactions_bad_types"
      [] i = 4  -> "employees_nulls"
      [] i = 5  -> "users_duplicates"
      [] i = 6  -> "events_bad_dates"
      [] i = 7  -> "contacts_bad_casing"
      [] i = 8  -> "inventory_whitespace"
      [] i = 9  -> "subscribers_bad_emails"
      [] i = 10 -> "sales_bad_values"
      [] i = 11 -> "articles_csv_tags"
      [] i = 12 -> "international_data"
      [] i = 13 -> "god_table"
      [] i = 14 -> "audit_log_no_index"
      [] i = 15 -> "transactions_str_id"

\* Plan02 with the orders generator not creating its products table
Plan02_NoProducts ==
    << Step("create", "orders_no_fk", 0),
       Step("batches", "orders_no_fk", 0),
       Step("commit", "", 0) >>

\* problem_02_missing_foreign_keys
Plan02 ==
    << Step("create", "products", 0),
       Step("fixed", "products", ProductRows),
       Step("create", "orders_no_fk", 0),
       Step("batches", "orders_no_fk", 0),
       Step("commit", "", 0) >>

\* Plan15 with the transactions generator not creating its accounts table
Plan15_NoAccounts ==
    << Step("create", "transactions_str_id", 0),
       Step("batches", "transactions_str_id", 0),
       Step("commit", "", 0) >>

\* problem_15_type_coercion
Plan15 ==
    << Step("create", "accounts_int_id", 0),
       Step("create", "transactions_str_id", 0),
       Step("fixed", "accounts_int_id", AccountRows),
       Step("batches", "transactions_str_id", 0),
       Step("commit", "", 0) >>

\* the template of the other thirteen: CREATE TABLE, the batches, commit
PlanSimple(i) ==
    << Step("create", MainTable(i), 0),
       Step("batches", MainTable(i), 0),
       Step("commit", "", 0) >>

GenPlan(i) ==
    CASE i = 2  -> Plan02
      [] i = 15 -> Plan15
      [] OTHER  -> PlanSimple(i)

\* every table generator i creates
GenTables(i) == { GenPlan(i)[j].table : j \in { x \in 1..Len(GenPlan(i)) : GenPlan(i)[x].op = "create" } }

-----------------------------------------------------------------------------
(* The seeded random source, as the outcomes it produces *)

\* coin: which of the per-row draws "random.random() < p" succeed;
\* dupn: what random.randint(1, 3) returns in problem_05
RndProfiles ==
    { [coin |-> "none",  dupn |-> 1],
      [coin |-> "first", dupn |-> 3],
      [coin |-> "all",   dupn |-> 1],
      [coin |-> "all",   dupn |-> 2],
      [coin |-> "all",   dupn |-> 3] }

\* does the draw for row (or user) number i succeed
Coin(r, i) ==
    CASE r.coin = "none"  -> FALSE
      [] r.coin = "first" -> i = 1
      [] r.coin = "all"   -> TRUE

\* the number of rows a..b whose draw succeeds
CoinCount(r, a, b) ==
    IF b < a THEN 0
    ELSE CASE r.coin = "none"  -> 0
           [] r.coin = "first" -> IF a <= 1 /\ 1 <= b THEN 1 ELSE 0
           [] r.coin = "all"   -> b - a + 1

Min(a, b) == IF a <= b THEN a ELSE b

\* the loops "for batch_start in range(0, num_rows, batch_size)" and, in
\* problem_13, "append; if len(rows) >= batch_size: flush": rows of the batch
\* that starts at cursor s
PlainBatchLen(n, s) == Min(s + batch_size, n) - s

\* problem_01: every row is appended, and appended again when its draw succeeds
P1BatchLen(r, n, s) ==
    PlainBatchLen(n, s) + CoinCount(r, s + 1, Min(s + batch_size, n))

\* problem_05: the rows users s+1..s+u add to the buffer
P5Rows(r, s, u) == u + r.dupn * CoinCount(r, s + 1, s + u)

\* problem_05: "for i in range(num_rows // 3)"
P5Users(n) == n \div 3

\* problem_05: the users consumed until "len(rows) >= batch_size" first holds,
\* or all that are left
P5BatchUsers(r, n, s) ==
    LET left == P5Users(n) - s
    IN  IF P5Rows(r, s, left) < batch_size THEN left
        ELSE CHOOSE u \in (batch_size \div (1 + r.dupn))..Min(left, batch_size) :
                /\ P5Rows(r, s, u) >= batch_size
                /\ P5Rows(r, s, u - 1) < batch_size

\* the loop cursor's limit: rows for the range loops, users for problem_05
LoopLimit(i, n) == IF i = 5 THEN P5Users(n) ELSE n

\* how far one batch advances the cursor
BatchAdvance(i, r, n, s) ==
    IF i = 5 THEN P5BatchUsers(r, n, s) ELSE PlainBatchLen(n, s)

\* BatchRows with the last row of every plain batch left out
\* ("range(batch_start, batch_end - 1)")
BatchRows_DropsLastRow(i, r, n, s, u) ==
    CASE i = 1 -> P1BatchLen(r, n, s)
      [] i = 5 -> P5Rows(r, s, u)
      [] OTHER -> u - 1

\* the rows of the batch handed to executemany, u being how far it advances
\* the cursor
BatchRows(i, r, n, s, u) ==
    CASE i = 1 -> P1BatchLen(r, n, s)
      [] i = 5 -> P5Rows(r, s, u)
      [] OTHER -> u

-----------------------------------------------------------------------------
(* The target database *)

\* tables that are not the workshop's
ForeignTables(t) ==
    IF t = "mysql"
    THEN { [ns |-> "", name |-> <<"b", "d", "w", "x", "_orders">>],
           [ns |-> "", name |-> <<"o", "t", "h", "e", "r">>] }
    ELSE { [ns |-> "public", name |-> <<"other">>] }

InitialTarget(t) ==
    [ schemas |-> IF t = "mysql" THEN {} ELSE {"public"},
      tables  |-> [ id \in ForeignTables(t) |-> 1 ] ]

TableExists(db, id) == id \in DOMAIN db.tables

\* CanCreate as for CREATE TABLE IF NOT EXISTS
CanCreate_IfNotExists(db, id) == id.ns = "" \/ id.ns \in db.schemas

\* CREATE TABLE succeeds only for a new name in an existing namespace
CanCreate(db, id) ==
    /\ ~TableExists(db, id)
    /\ id.ns = "" \/ id.ns \in db.schemas

CreateTable(db, id) == [db EXCEPT !.tables = @ @@ (id :> 0)]

InsertRows(db, id, n) == [db EXCEPT !.tables[id] = @ + n]

\* CREATE SCHEMA IF NOT EXISTS
CreateSchemaIfNotExists(db) == [db EXCEPT !.schemas = @ \cup {SCHEMA_NAME}]

\* DROP SCHEMA IF EXISTS ... CASCADE
DropSchemaCascade(db) ==
    [ schemas |-> db.schemas \ {SCHEMA_NAME},
      tables  |-> [ id \in { x \in DOMAIN db.tables : x.ns # SCHEMA_NAME } |-> db.tables[id] ] ]

\* DROP TABLE IF EXISTS
DropTableIfExists(db, id) ==
    [db EXCEPT !.tables = [ x \in (DOMAIN db.tables) \ {id} |-> db.tables[x] ]]

\* SELECT table_name FROM information_schema.tables
\*  WHERE table_schema = DATABASE() AND table_name LIKE 'bdw_%'
SelectPrefixed(db) == { id \in DOMAIN db.tables : id.ns = "" /\ LikeBdw(id.name) }

\* what the workshop leaves in the target: its schema, or its prefixed tables
WorkshopObjects(t, db) ==
    IF t = "mysql"
    THEN { id \in DOMAIN db.tables : id.ns = "" /\ SubSeq(id.name, 1, 4) = get_table_prefix("mysql") }
    ELSE { id \in DOMAIN db.tables : id.ns = SCHEMA_NAME }
         \cup (IF SCHEMA_NAME \in db.schemas THEN {[ns |-> SCHEMA_NAME, name |-> <<>>]} ELSE {})

-----------------------------------------------------------------------------
(* Processes: main() *)

\* what a driver call or a console write can do
Outcomes == {"ok", "Exception", "KeyboardInterrupt"}

\* the scale tokens the processes of Spec are started with
RunScales == {"tiny", "small"}

\* the random outcomes the processes of Spec run with
RunProfiles == { r \in RndProfiles : r.coin # "all" }

NoBatch == <<"", -1, 0, 0>>

\* the state of a process that has just started: DatabaseAdapter.__init__ and
\* the locals of setup_workshop not yet assigned
FreshLocals ==
    [ pc |-> "main", exc |-> "none", exit_code |-> -1, connection |-> "None",
      cursor |-> "None", base_rows |-> 0, problems |-> <<>>, k |-> 0, gpc |-> 0,
      batch_start |-> 0, to_drop |-> <<>>, lastOp |-> "none",
      lastBatch |-> NoBatch, closeCalls |-> 0, closeRaised |-> FALSE,
      opAfterClose |-> FALSE,
      failed |-> FALSE, stmtAfterFail |-> FALSE, shown |-> <<>> ]

\* no process is recorded
DetOff ==
    /\ today = 1
    /\ stream = <<>>
    /\ det_run = 0
    /\ det_pc = "off"
    /\ rng_pos = 0
    /\ now = 0
    /\ p10_rows = <<>>
    /\ datasets = <<>>

\* no generator's rows are followed
SynthOff ==
    /\ gen_id = 0
    /\ num_rows = 0
    /\ draws = <<>>
    /\ syn_pc = "off"
    /\ row_i = 0
    /\ buf = <<>>
    /\ batches = <<>>
    /\ ref_rows = <<>>
    /\ calls = <<>>

Fresh ==
    /\ exc = FreshLocals.exc
    /\ exit_code = FreshLocals.exit_code
    /\ connection = FreshLocals.connection
    /\ cursor = FreshLocals.cursor
    /\ base_rows = FreshLocals.base_rows
    /\ problems = FreshLocals.problems
    /\ k = FreshLocals.k
    /\ gpc = FreshLocals.gpc
    /\ batch_start = FreshLocals.batch_start
    /\ to_drop = FreshLocals.to_drop
    /\ lastOp = FreshLocals.lastOp
    /\ lastBatch = FreshLocals.lastBatch
    /\ closeCalls = FreshLocals.closeCalls
    /\ closeRaised = FreshLocals.closeRaised
    /\ opAfterClose = FreshLocals.opAfterClose
    /\ failed = FreshLocals.failed
    /\ stmtAfterFail = FreshLocals.stmtAfterFail
    /\ shown = FreshLocals.shown

Init ==
    /\ cmd \in Commands
    /\ db_type \in DBTypes
    /\ scale \in RunScales
    /\ rnd \in RunProfiles
    /\ runs = 1
    /\ afterSetup = FALSE
    /\ committed = InitialTarget(db_type)
    /\ working = committed
    /\ pc = FreshLocals.pc
    /\ Fresh
    /\ DetOff
    /\ SynthOff

Statements == {"execute", "executemany", "commit"}

\* the bookkeeping of one adapter operation
Op(name) ==
    /\ lastOp' = name
    /\ opAfterClose' = (opAfterClose \/ closeCalls > 0)
    /\ stmtAfterFail' = (stmtAfterFail \/ (failed /\ name \in Statements))

Inputs == <<cmd, db_type, scale, rnd, runs, afterSetup>>

Close == <<closeCalls, closeRaised>>

Handles == <<connection, cursor>>

Setup == <<base_rows, problems, k>>

Frame == <<gpc, batch_start, lastBatch>>

Store == <<committed, working>>

OpVars == <<lastOp, opAfterClose, stmtAfterFail>>

\* Propagate with "db.close()" at the end of the except clause in place of the
\* finally block: an interrupt leaves the function without it
Propagate_NoFinally(o) ==
    /\ exc' = o
    /\ pc' = IF o = "Exception" THEN "except" ELSE "m_return"

\* an exception leaves the try block of setup_workshop / teardown_workshop:
\* "except Exception" takes an Exception, "finally" runs in every case
Propagate(o) ==
    /\ exc' = o
    /\ pc' = IF o = "Exception" THEN "except" ELSE "finally"

\* the generator's frame (step, cursor, buffer) is gone when it returns or raises
FrameGone ==
    /\ gpc' = 0
    /\ batch_start' = 0
    /\ lastBatch' = NoBatch

\* main: the try block dispatches on args.command
MainDispatch ==
    /\ pc = "main"
    /\ pc' = CASE cmd = "diagnose" -> "diagnose"
               [] cmd = "setup"    -> "s_scale"
               [] cmd = "teardown" -> "banner"
    /\ UNCHANGED <<Det, Synth, shown, Inputs, exc, exit_code, Handles, Setup, Frame, to_drop, Store,
                   OpVars, Close, failed>>

\* the catalog's keys, in the order of the dictionary
DiagnosticIds ==
    << "problem_01", "problem_02", "problem_03", "problem_04", "problem_05",
       "problem_06", "problem_07", "problem_08", "problem_09", "problem_10",
       "problem_11", "problem_12", "problem_13", "problem_14", "problem_15" >>

\* the tables each query template names, every one after a {prefix} placeholder
QueryTables ==
    << <<"customers_no_pk">>,
       <<"orders_no_fk", "customers_no_pk", "orders_no_fk", "products">>,
       <<"transactions_bad_types", "transactions_bad_types">>,
       <<"employees_nulls">>,
       <<"users_duplicates">>,
       <<"events_bad_dates">>,
       <<"contacts_bad_casing">>,
       <<"inventory_whitespace">>,
       <<"subscribers_bad_emails">>,
       <<"sales_bad_values">>,
       <<"articles_csv_tags">>,
       <<"international_data">>,
       <<"god_table">>,
       <<"audit_log_no_index">>,
       <<"accounts_int_id", "transactions_str_id", "transactions_str_id">> >>

RECURSIVE Template(_)
\* a query template as its pieces: SQL text, and "{prefix}" before each table
Template(tabs) ==
    IF tabs = <<>> THEN <<"sql">>
    ELSE <<"sql", "{prefix}", Head(tabs)>> \o Template(Tail(tabs))

DIAGNOSTIC_QUERIES ==
    [ i \in 1..Len(DiagnosticIds) |->
        [id |-> DiagnosticIds[i], query |-> Template(QueryTables[i])] ]

\* DiagPrefix with the schema prefix for every backend
DiagPrefix_SchemaOnly(t) == <<SCHEMA_NAME, ".">>

\* show_diagnostics: prefix = "bdw_" if db_type == "mysql" else f"{SCHEMA_NAME}."
DiagPrefix(t) == IF t = "mysql" THEN <<"b", "d", "w", "_">> ELSE <<SCHEMA_NAME, ".">>

RECURSIVE Replace(_, _, _)
\* str.replace(old, new): every occurrence of old is replaced
Replace(q, old, new) ==
    IF q = <<>> THEN <<>>
    ELSE (IF Head(q) = old THEN new ELSE <<Head(q)>>) \o Replace(Tail(q), old, new)

\* Rendered with the template printed as it is
Rendered_Unsubstituted(info, t) == info

\* the entry written for one catalog item: info["query"].replace("{prefix}", prefix)
Rendered(info, t) ==
    [id |-> info.id, query |-> Replace(info.query, "{prefix}", DiagPrefix(t))]

\* show_diagnostics: the panel, then one entry per catalog item; a console
\* write that raises ends it after j entries
ShowDiagnostics(o) ==
    /\ pc = "diagnose"
    /\ \E j \in 0..Len(DIAGNOSTIC_QUERIES) :
          /\ o = "ok" <=> j = Len(DIAGNOSTIC_QUERIES)
          /\ shown' = [ i \in 1..j |-> Rendered(DIAGNOSTIC_QUERIES[i], db_type) ]
    /\ exc' = IF o = "ok" THEN "none" ELSE o
    /\ pc' = "m_return"
    /\ UNCHANGED <<Det, Synth, Inputs, exit_code, Handles, Setup, Frame, to_drop, Store,
                   OpVars, Close, failed>>

\* setup_workshop up to the try block: the scale controller and get_adapter
SetupScale ==
    /\ pc = "s_scale"
    /\ base_rows' = ScaleBase(scale)
    /\ problems' = Problems(ScaleBase(scale))
    /\ pc' = "banner"
    /\ UNCHANGED <<Det, Synth, shown, Inputs, exc, exit_code, Handles, k, Frame, to_drop, Store,
                   OpVars, Close, failed>>

\* the first statements of the try block write the banner to the console
Banner(o) ==
    /\ pc = "banner"
    /\ IF o = "ok" THEN pc' = "connect" /\ exc' = exc ELSE Propagate(o)
    /\ UNCHANGED <<Det, Synth, shown, Inputs, exit_code, Handles, Setup, Frame, to_drop, Store,
                   OpVars, Close, failed>>

\* connect(): the driver's connect() assigns self.connection
Connect(o) ==
    /\ pc = "connect"
    /\ Op("connect")
    /\ IF o = "ok"
       THEN /\ connection' = "open"
            /\ working' = committed
            /\ pc' = "connect_cursor"
            /\ exc' = exc
       ELSE /\ Propagate(o)
            /\ UNCHANGED <<connection, working>>
    /\ UNCHANGED <<Det, Synth, shown, Inputs, exit_code, cursor, Setup, Frame, to_drop, committed,
                   Close, failed>>

\* connect(): self.cursor = self.connection.cursor()
ConnectCursor(o) ==
    /\ pc = "connect_cursor"
    /\ IF o = "ok"
       THEN /\ cursor' = "open"
            /\ pc' = IF cmd = "setup" THEN "create_schema" ELSE "drop_schema"
            /\ exc' = exc
       ELSE /\ Propagate(o)
            /\ UNCHANGED cursor
    /\ UNCHANGED <<Det, Synth, shown, Inputs, exit_code, connection, Setup, Frame, to_drop, Store,
                   OpVars, Close, failed>>

-----------------------------------------------------------------------------
(* setup_workshop: create_schema and the loop over the problems *)

\* MySQLAdapter.create_schema: pass
CreateSchemaPass ==
    /\ pc = "create_schema"
    /\ db_type = "mysql"
    /\ pc' = "s_loop"
    /\ UNCHANGED <<Det, Synth, shown, Inputs, exc, exit_code, Handles, Setup, Frame, to_drop, Store,
                   OpVars, Close, failed>>

\* Postgres/RedshiftAdapter.create_schema: execute(CREATE SCHEMA IF NOT EXISTS)
CreateSchemaExecute(o) ==
    /\ pc = "create_schema"
    /\ db_type # "mysql"
    /\ Op("execute")
    /\ IF o = "ok"
       THEN /\ working' = CreateSchemaIfNotExists(working)
            /\ pc' = "create_schema_commit"
            /\ UNCHANGED <<exc, failed>>
       ELSE /\ Propagate(o)
            /\ failed' = TRUE
            /\ UNCHANGED working
    /\ UNCHANGED <<Det, Synth, shown, Inputs, exit_code, Handles, Setup, Frame, to_drop, committed, Close>>

\* Postgres/RedshiftAdapter.create_schema: commit()
CreateSchemaCommit(o) ==
    /\ pc = "create_schema_commit"
    /\ Op("commit")
    /\ IF o = "ok"
       THEN /\ committed' = working
            /\ pc' = "s_loop"
            /\ UNCHANGED <<exc, failed>>
       ELSE /\ Propagate(o)
            /\ failed' = TRUE
            /\ UNCHANGED committed
    /\ UNCHANGED <<Det, Synth, shown, Inputs, exit_code, Handles, Setup, Frame, to_drop, working, Close>>

\* SetupNextProblem with the loop stepping over every second problem
SetupNextProblem_SkipsOne ==
    /\ pc = "s_loop"
    /\ k < NumProblems
    /\ k' = IF k + 2 <= NumProblems THEN k + 2 ELSE k + 1
    /\ gpc' = 1
    /\ batch_start' = 0
    /\ pc' = "gen"
    /\ UNCHANGED <<Det, Synth, shown, Inputs, exc, exit_code, Handles, base_rows, problems, lastBatch,
                   to_drop, Store, OpVars, Close, failed>>

\* "for name, func, rows in problems": the next func(db, rows) is called
SetupNextProblem ==
    /\ pc = "s_loop"
    /\ k < NumProblems
    /\ k' = k + 1
    /\ gpc' = 1
    /\ batch_start' = 0
    /\ pc' = "gen"
    /\ UNCHANGED <<Det, Synth, shown, Inputs, exc, exit_code, Handles, base_rows, problems, lastBatch,
                   to_drop, Store, OpVars, Close, failed>>

\* the loop is over: the closing panel, then the finally block
SetupComplete ==
    /\ pc = "s_loop"
    /\ k = NumProblems
    /\ pc' = "finally"
    /\ UNCHANGED <<Det, Synth, shown, Inputs, exc, exit_code, Handles, Setup, Frame, to_drop, Store,
                   OpVars, Close, failed>>

\* the step of its plan generator k is at, and its num_rows
Cur == GenPlan(k)[gpc]

NumRows == problems[k]

\* the step after step g: a loop over no rows is passed over
NextStep(i, g, n) ==
    IF g + 1 <= Len(GenPlan(i)) /\ GenPlan(i)[g + 1].op = "batches" /\ LoopLimit(i, n) = 0
    THEN g + 2
    ELSE g + 1

\* DDL commits implicitly on MySQL; it is transactional on the other two
AfterDDL(t, new, old) == IF t = "mysql" THEN new ELSE old

\* db.execute(CREATE TABLE {prefix}table ...)
GenCreate(o) ==
    /\ pc = "gen"
    /\ Cur.op = "create"
    /\ Op("execute")
    /\ LET id == TableId(db_type, Cur.table)
       IN  IF o = "ok" /\ CanCreate(working, id)
           THEN /\ working' = CreateTable(working, id)
                /\ committed' = AfterDDL(db_type, CreateTable(working, id), committed)
                /\ gpc' = NextStep(k, gpc, NumRows)
                /\ UNCHANGED <<pc, exc, failed, batch_start, lastBatch>>
           ELSE /\ Propagate(IF o = "ok" THEN "Exception" ELSE o)
                /\ FrameGone
                /\ failed' = TRUE
                /\ UNCHANGED Store
    /\ UNCHANGED <<Det, Synth, shown, Inputs, exit_code, Handles, Setup, to_drop, Close>>

\* db.executemany(INSERT ...) of a helper table's fixed rows
GenInsertFixed(o) ==
    /\ pc = "gen"
    /\ Cur.op = "fixed"
    /\ Op("executemany")
    /\ IF o = "ok"
       THEN /\ working' = InsertRows(working, TableId(db_type, Cur.table), Cur.rows)
            /\ gpc' = NextStep(k, gpc, NumRows)
            /\ UNCHANGED <<pc, exc, failed, batch_start, lastBatch>>
       ELSE /\ Propagate(o)
            /\ FrameGone
            /\ failed' = TRUE
            /\ UNCHANGED working
    /\ UNCHANGED <<Det, Synth, shown, Inputs, exit_code, Handles, Setup, to_drop, committed, Close>>

\* the batch at cursor s of table t is handed to executemany once more
Submitted(b, t, s, n) ==
    IF b[1] = t /\ b[2] = s THEN <<t, s, b[3] + 1, n>> ELSE <<t, s, 1, n>>

\* GenBatch with a batch that failed handed to executemany again
GenBatch_Retry(o) ==
    /\ pc = "gen"
    /\ Cur.op = "batches"
    /\ batch_start < LoopLimit(k, NumRows)
    /\ Op("executemany")
    /\ lastBatch' = Submitted(lastBatch, Cur.table, batch_start,
                              BatchRows(k, rnd, NumRows, batch_start,
                                        BatchAdvance(k, rnd, NumRows, batch_start)))
    /\ IF o = "ok"
       THEN LET u == BatchAdvance(k, rnd, NumRows, batch_start)
                n == BatchRows(k, rnd, NumRows, batch_start, u)
            IN  /\ working' = InsertRows(working, TableId(db_type, Cur.table), n)
                /\ batch_start' = batch_start + u
                /\ gpc' = IF batch_start + u < LoopLimit(k, NumRows) THEN gpc ELSE gpc + 1
                /\ UNCHANGED <<pc, exc, failed>>
       ELSE /\ failed' = TRUE
            /\ UNCHANGED <<pc, exc, working, gpc, batch_start>>
    /\ UNCHANGED <<Det, Synth, shown, Inputs, exit_code, Handles, Setup, to_drop, committed, Close>>

\* GenBatch with "db.commit()" inside the batch loop
GenBatch_CommitsEachBatch(o) ==
    /\ pc = "gen"
    /\ Cur.op = "batches"
    /\ batch_start < LoopLimit(k, NumRows)
    /\ Op("executemany")
    /\ IF o = "ok"
       THEN LET u == BatchAdvance(k, rnd, NumRows, batch_start)
                n == BatchRows(k, rnd, NumRows, batch_start, u)
            IN  /\ working' = InsertRows(working, TableId(db_type, Cur.table), n)
                /\ committed' = InsertRows(working, TableId(db_type, Cur.table), n)
                /\ lastBatch' = Submitted(lastBatch, Cur.table, batch_start, n)
                /\ batch_start' = batch_start + u
                /\ gpc' = IF batch_start + u < LoopLimit(k, NumRows) THEN gpc ELSE gpc + 1
                /\ UNCHANGED <<pc, exc, failed>>
       ELSE /\ Propagate(o)
            /\ FrameGone
            /\ failed' = TRUE
            /\ UNCHANGED <<working, committed>>
    /\ UNCHANGED <<Det, Synth, shown, Inputs, exit_code, Handles, Setup, to_drop, Close>>

\* one pass of the batch loop: the rows are built and handed to executemany
GenBatch(o) ==
    /\ pc = "gen"
    /\ Cur.op = "batches"
    /\ batch_start < LoopLimit(k, NumRows)
    /\ Op("executemany")
    /\ IF o = "ok"
       THEN LET u == BatchAdvance(k, rnd, NumRows, batch_start)
                n == BatchRows(k, rnd, NumRows, batch_start, u)
            IN  /\ working' = InsertRows(working, TableId(db_type, Cur.table), n)
                /\ lastBatch' = Submitted(lastBatch, Cur.table, batch_start, n)
                /\ batch_start' = batch_start + u
                /\ gpc' = IF batch_start + u < LoopLimit(k, NumRows) THEN gpc ELSE gpc + 1
                /\ UNCHANGED <<pc, exc, failed>>
       ELSE /\ Propagate(o)
            /\ FrameGone
            /\ failed' = TRUE
            /\ UNCHANGED working
    /\ UNCHANGED <<Det, Synth, shown, Inputs, exit_code, Handles, Setup, to_drop, committed, Close>>

\* db.commit(), the generator's last statement; the generator returns
GenCommit(o) ==
    /\ pc = "gen"
    /\ Cur.op = "commit"
    /\ Op("commit")
    /\ FrameGone
    /\ IF o = "ok"
       THEN /\ committed' = working
            /\ pc' = "s_loop"
            /\ UNCHANGED <<exc, failed>>
       ELSE /\ Propagate(o)
            /\ failed' = TRUE
            /\ UNCHANGED committed
    /\ UNCHANGED <<Det, Synth, shown, Inputs, exit_code, Handles, Setup, to_drop, working, Close>>

-----------------------------------------------------------------------------
(* teardown_workshop: drop_schema *)

RECURSIVE SetToSeq(_)
\* the rows of a result set, in the order the server returns them
SetToSeq(S) ==
    IF S = {} THEN <<>>
    ELSE LET x == CHOOSE y \in S : TRUE IN <<x>> \o SetToSeq(S \ {x})

\* Postgres/RedshiftAdapter.drop_schema: execute(DROP SCHEMA IF EXISTS ... CASCADE)
DropSchemaExecute(o) ==
    /\ pc = "drop_schema"
    /\ db_type # "mysql"
    /\ Op("execute")
    /\ IF o = "ok"
       THEN /\ working' = DropSchemaCascade(working)
            /\ pc' = "drop_commit"
            /\ UNCHANGED <<exc, failed>>
       ELSE /\ Propagate(o)
            /\ failed' = TRUE
            /\ UNCHANGED working
    /\ UNCHANGED <<Det, Synth, shown, Inputs, exit_code, Handles, Setup, Frame, to_drop, committed, Close>>

\* MySQLAdapter.drop_schema: execute(SELECT table_name ... LIKE 'bdw_%')
DropSelect(o) ==
    /\ pc = "drop_schema"
    /\ db_type = "mysql"
    /\ Op("execute")
    /\ IF o = "ok"
       THEN /\ pc' = "drop_fetch"
            /\ UNCHANGED <<exc, failed>>
       ELSE /\ Propagate(o)
            /\ failed' = TRUE
    /\ UNCHANGED <<Det, Synth, shown, Inputs, exit_code, Handles, Setup, Frame, to_drop, Store, Close>>

\* MySQLAdapter.drop_schema: tables = self.cursor.fetchall()
DropFetch(o) ==
    /\ pc = "drop_fetch"
    /\ IF o = "ok"
       THEN /\ to_drop' = SetToSeq(SelectPrefixed(working))
            /\ pc' = "drop_loop"
            /\ exc' = exc
       ELSE /\ Propagate(o)
            /\ UNCHANGED to_drop
    /\ UNCHANGED <<Det, Synth, shown, Inputs, exit_code, Handles, Setup, Frame, Store, OpVars,
                   Close, failed>>

\* DropTable with the loop left after its first table
DropTable_OnlyFirst(o) ==
    /\ pc = "drop_loop"
    /\ to_drop # <<>>
    /\ Op("execute")
    /\ IF o = "ok"
       THEN /\ working' = DropTableIfExists(working, Head(to_drop))
            /\ committed' = AfterDDL(db_type, DropTableIfExists(working, Head(to_drop)), committed)
            /\ to_drop' = <<>>
            /\ UNCHANGED <<pc, exc, failed>>
       ELSE /\ Propagate(o)
            /\ failed' = TRUE
            /\ UNCHANGED <<Store, to_drop>>
    /\ UNCHANGED <<Det, Synth, shown, Inputs, exit_code, Handles, Setup, Frame, Close>>

\* MySQLAdapter.drop_schema: execute(DROP TABLE IF EXISTS table_name), per table
DropTable(o) ==
    /\ pc = "drop_loop"
    /\ to_drop # <<>>
    /\ Op("execute")
    /\ IF o = "ok"
       THEN /\ working' = DropTableIfExists(working, Head(to_drop))
            /\ committed' = AfterDDL(db_type, DropTableIfExists(working, Head(to_drop)), committed)
            /\ to_drop' = Tail(to_drop)
            /\ UNCHANGED <<pc, exc, failed>>
       ELSE /\ Propagate(o)
            /\ failed' = TRUE
            /\ UNCHANGED <<Store, to_drop>>
    /\ UNCHANGED <<Det, Synth, shown, Inputs, exit_code, Handles, Setup, Frame, Close>>

\* drop_schema: commit(), after which teardown_workshop reaches its finally block
DropCommit(o) ==
    /\ \/ pc = "drop_commit"
       \/ pc = "drop_loop" /\ to_drop = <<>>
    /\ Op("commit")
    /\ IF o = "ok"
       THEN /\ committed' = working
            /\ pc' = "finally"
            /\ UNCHANGED <<exc, failed>>
       ELSE /\ Propagate(o)
            /\ failed' = TRUE
            /\ UNCHANGED committed
    /\ UNCHANGED <<Det, Synth, shown, Inputs, exit_code, Handles, Setup, Frame, to_drop, working, Close>>

-----------------------------------------------------------------------------
(* except / finally, close() and main's handlers *)

\* Except with a handler that drops what the run created before raising again
Except_WithCleanup(o) ==
    /\ pc = "except"
    /\ pc' = "finally"
    /\ exc' = IF o = "ok" THEN exc ELSE o
    /\ working' = DropSchemaCascade(working)
    /\ committed' = DropSchemaCascade(working)
    /\ UNCHANGED <<Det, Synth, shown, Inputs, exit_code, Handles, Setup, Frame, to_drop,
                   OpVars, Close, failed>>

\* "except Exception as e": the error is printed and raised again; what the
\* console write raises takes its place
Except(o) ==
    /\ pc = "except"
    /\ pc' = "finally"
    /\ exc' = IF o = "ok" THEN exc ELSE o
    /\ UNCHANGED <<Det, Synth, shown, Inputs, exit_code, Handles, Setup, Frame, to_drop, Store,
                   OpVars, Close, failed>>

\* close(): "if self.connection:", a connection that is None is skipped
CloseSecond(conn) == IF conn # "None" THEN "close_connection" ELSE "m_return"

\* CloseEntry without the "if self.cursor" test
CloseEntry_NoNoneTest(cur, conn) == "close_cursor"

\* close(): "if self.cursor:", a cursor that is None is skipped
CloseEntry(cur, conn) == IF cur # "None" THEN "close_cursor" ELSE CloseSecond(conn)

\* "finally: db.close()": close() is entered
CloseCall ==
    /\ pc = "finally"
    /\ Op("close")
    /\ closeCalls' = closeCalls + 1
    /\ pc' = CloseEntry(cursor, connection)
    /\ UNCHANGED <<Det, Synth, shown, closeRaised, Inputs, exc, exit_code, Handles, Setup, Frame,
                   to_drop, Store, failed>>

\* close(): "if self.cursor: self.cursor.close()"
CloseCursor(o) ==
    /\ pc = "close_cursor"
    /\ IF o = "ok"
       THEN /\ cursor' = "closed"
            /\ pc' = CloseSecond(connection)
            /\ UNCHANGED <<exc, closeRaised>>
       ELSE /\ exc' = o
            /\ closeRaised' = TRUE
            /\ pc' = "m_return"
            /\ UNCHANGED cursor
    /\ UNCHANGED <<Det, Synth, shown, Inputs, exit_code, connection, Setup, Frame, to_drop, Store,
                   OpVars, closeCalls, failed>>

\* close(): "if self.connection: self.connection.close()"; the server discards
\* what the session had not committed
CloseConnection(o) ==
    /\ pc = "close_connection"
    /\ IF o = "ok"
       THEN /\ connection' = "closed"
            /\ working' = committed
            /\ UNCHANGED <<exc, closeRaised>>
       ELSE /\ exc' = o
            /\ closeRaised' = TRUE
            /\ UNCHANGED <<connection, working>>
    /\ pc' = "m_return"
    /\ UNCHANGED <<Det, Synth, shown, Inputs, exit_code, cursor, Setup, Frame, to_drop, committed,
                   OpVars, closeCalls, failed>>

\* ExitCode without the "except KeyboardInterrupt" clause
ExitCode_InterruptUnhandled(e) ==
    CASE e = "none" -> 0
      [] OTHER      -> 1

\* main's return value: 0, "except KeyboardInterrupt" 130, "except Exception" 1
ExitCode(e) ==
    CASE e = "none"              -> 0
      [] e = "KeyboardInterrupt" -> 130
      [] e = "Exception"         -> 1

\* main returns and the process ends; its session, if still open, ends with it
MainReturn ==
    /\ pc = "m_return"
    /\ exit_code' = ExitCode(exc)
    /\ pc' = "exit"
    /\ working' = committed
    /\ UNCHANGED <<Det, Synth, shown, Inputs, exc, Handles, Setup, Frame, to_drop, committed,
                   OpVars, Close, failed>>

\* the next process against the same target; the module-level seeding gives it
\* the same random outcomes
NewProcess ==
    /\ pc = "exit"
    /\ runs < MaxRuns
    /\ runs' = runs + 1
    /\ afterSetup' = IF exit_code = 0 /\ cmd # "diagnose" THEN cmd = "setup" ELSE afterSetup
    /\ cmd' \in Commands
    /\ scale' \in RunScales
    /\ pc' = FreshLocals.pc
    /\ exc' = FreshLocals.exc
    /\ exit_code' = FreshLocals.exit_code
    /\ connection' = FreshLocals.connection
    /\ cursor' = FreshLocals.cursor
    /\ base_rows' = FreshLocals.base_rows
    /\ problems' = FreshLocals.problems
    /\ k' = FreshLocals.k
    /\ gpc' = FreshLocals.gpc
    /\ batch_start' = FreshLocals.batch_start
    /\ to_drop' = FreshLocals.to_drop
    /\ lastOp' = FreshLocals.lastOp
    /\ lastBatch' = FreshLocals.lastBatch
    /\ closeCalls' = FreshLocals.closeCalls
    /\ closeRaised' = FreshLocals.closeRaised
    /\ opAfterClose' = FreshLocals.opAfterClose
    /\ failed' = FreshLocals.failed
    /\ stmtAfterFail' = FreshLocals.stmtAfterFail
    /\ shown' = FreshLocals.shown
    /\ UNCHANGED <<Det, Synth, db_type, rnd, committed, working>>

Next ==
    \/ MainDispatch
    \/ \E o \in Outcomes : ShowDiagnostics(o)
    \/ SetupScale
    \/ \E o \in Outcomes : Banner(o)
    \/ \E o \in Outcomes : Connect(o)
    \/ \E o \in Outcomes : ConnectCursor(o)
    \/ CreateSchemaPass
    \/ \E o \in Outcomes : CreateSchemaExecute(o)
    \/ \E o \in Outcomes : CreateSchemaCommit(o)
    \/ SetupNextProblem
    \/ SetupComplete
    \/ \E o \in Outcomes : GenCreate(o)
    \/ \E o \in Outcomes : GenInsertFixed(o)
    \/ \E o \in Outcomes : GenBatch(o)
    \/ \E o \in Outcomes : GenCommit(o)
    \/ \E o \in Outcomes : DropSchemaExecute(o)
    \/ \E o \in Outcomes : DropSelect(o)
    \/ \E o \in Outcomes : DropFetch(o)
    \/ \E o \in Outcomes : DropTable(o)
    \/ \E o \in Outcomes : DropCommit(o)
    \/ \E o \in Outcomes : Except(o)
    \/ CloseCall
    \/ \E o \in Outcomes : CloseCursor(o)
    \/ \E o \in Outcomes : CloseConnection(o)
    \/ MainReturn
    \/ NewProcess

Spec == Init /\ [][Next]_vars

-----------------------------------------------------------------------------
(* One call func(db, rows) of the problems list, for every scale token *)

\* the scale tokens setup_workshop is called with: the five, and one outside them
GenScales == ScaleTokens \cup {"bogus"}

\* the target once connect() and create_schema() have succeeded
SchemaReady(t) ==
    IF t = "mysql" THEN InitialTarget(t) ELSE CreateSchemaIfNotExists(InitialTarget(t))

InitGen ==
    /\ cmd = "setup"
    /\ db_type \in DBTypes
    /\ scale \in GenScales
    /\ rnd \in RndProfiles
    /\ runs = 1
    /\ afterSetup = FALSE
    /\ committed = InitialTarget(db_type)
    /\ working = committed
    /\ Fresh
    /\ DetOff
    /\ SynthOff
    /\ pc = "s_scale"

\* "func(db, rows)" for entry i of the problems list, on a connected adapter
\* whose schema exists
CallProblem(i) ==
    /\ pc = "banner"
    /\ cmd = "setup"
    /\ i = 1 \/ i = 5 \/ rnd.coin = "none"
    /\ connection' = "open"
    /\ cursor' = "open"
    /\ committed' = SchemaReady(db_type)
    /\ working' = SchemaReady(db_type)
    /\ k' = i
    /\ gpc' = 1
    /\ batch_start' = 0
    /\ pc' = "gen"
    /\ UNCHANGED <<Det, Synth, shown, Inputs, exc, exit_code, base_rows, problems, lastBatch, to_drop,
                   OpVars, Close, failed>>

NextGen ==
    \/ SetupScale
    \/ \E i \in 1..NumProblems : CallProblem(i)
    \/ GenCreate("ok")
    \/ GenInsertFixed("ok")
    \/ GenBatch("ok")
    \/ GenCommit("ok")

SpecGen == InitGen /\ [][NextGen]_vars

-----------------------------------------------------------------------------
(* Two processes with the same seed: the rows problem_10 builds *)

\* the last day of the wall clock
MaxDay == 3

\* num_rows of the call of problem_10
DetRows == 2

\* random.choice([...]) of problem_10, and "none" for the rows that
\* "random.random() < 0.2" leaves good
BadTypes == {"negative_price", "negative_quantity", "huge_discount", "future_date",
             "impossible_age", "bad_rating"}

\* what the seeded source decides of one row: the kind of defect, and pick: what
\* random.choice returns of a list of four, the other draws returning the
\* bottom of their range when it is odd and the top when it is even
Draws == [bad_type : BadTypes \cup {"none"}, pick : 1..4]

\* random.randint(lo, hi), or round(random.uniform(lo, hi), n), at an end of
\* its range
RandInt(lo, hi, top) == IF top THEN hi ELSE lo

\* does draw d return the top of the ranges
Top(d) == d.pick % 2 = 0

\* fake.date_between(start_date="-1y", end_date="today") called on day t
FakeDateBetween(d, t) == t - RandInt(0, 365, ~Top(d))

\* the sale_date of a row built on day t: "now + timedelta(days=
\* random.randint(1, 365))" for a future_date row
SaleDate(d, n, t) ==
    IF d.bad_type = "future_date" THEN n + RandInt(1, 365, Top(d)) ELSE FakeDateBetween(d, t)

\* problem_10: the tuple of pass i, built on day t
P10Tuple(i, d, n, t) ==
    [sale_id          |-> i + 1,
     unit_price       |-> IF d.bad_type = "negative_price"
                          THEN 0 - RandInt(1, 100, Top(d)) ELSE RandInt(10, 500, Top(d)),
     quantity         |-> IF d.bad_type = "negative_quantity"
                          THEN 0 - RandInt(1, 100, Top(d)) ELSE RandInt(1, 10, Top(d)),
     discount_percent |-> IF d.bad_type = "huge_discount"
                          THEN RandInt(100, 500, Top(d)) ELSE RandInt(0, 30, Top(d)),
     sale_date        |-> SaleDate(d, n, t),
     customer_age     |-> IF d.bad_type = "impossible_age"
                          THEN <<-5, 0, 150, 999>>[d.pick] ELSE RandInt(18, 80, Top(d)),
     rating           |-> IF d.bad_type = "bad_rating"
                          THEN <<-1, 0, 6, 10>>[d.pick] ELSE RandInt(1, 5, Top(d))]

InitDet ==
    /\ cmd = "setup"
    /\ db_type = "postgres"
    /\ scale = "tiny"
    /\ rnd = [coin |-> "none", dupn |-> 1]
    /\ runs = 1
    /\ afterSetup = FALSE
    /\ committed = InitialTarget(db_type)
    /\ working = committed
    /\ pc = FreshLocals.pc
    /\ Fresh
    /\ SynthOff
    /\ today = 1
    /\ stream \in [1..DetRows -> Draws]
    /\ det_run = 1
    /\ det_pc = "import"
    /\ rng_pos = 0
    /\ now = 0
    /\ p10_rows = <<>>
    /\ datasets = <<>>

Lifecycle == <<cmd, db_type, scale, rnd, runs, afterSetup, pc, exc, exit_code,
               connection, cursor, base_rows, problems, k, gpc, batch_start,
               committed, working, to_drop, lastOp, lastBatch, closeCalls,
               closeRaised, opAfterClose, failed, stmtAfterFail, shown>>

\* a day passes
Tick ==
    /\ det_run > 0
    /\ today < MaxDay
    /\ today' = today + 1
    /\ UNCHANGED <<stream, det_run, det_pc, rng_pos, now, p10_rows, datasets, Lifecycle, Synth>>

\* the module is imported: Faker.seed(42), random.seed(42)
SeedRandom ==
    /\ det_pc = "import"
    /\ rng_pos' = 1
    /\ det_pc' = "p10_now"
    /\ UNCHANGED <<today, stream, det_run, now, p10_rows, datasets, Lifecycle, Synth>>

\* problem_10: now = datetime.now(timezone.utc).date()
P10Now ==
    /\ det_pc = "p10_now"
    /\ now' = today
    /\ det_pc' = "p10_rows"
    /\ UNCHANGED <<today, stream, det_run, rng_pos, p10_rows, datasets, Lifecycle, Synth>>

\* problem_10: one row is built from the next draws
P10Row ==
    /\ det_pc = "p10_rows"
    /\ Len(p10_rows) < DetRows
    /\ p10_rows' = Append(p10_rows, P10Tuple(Len(p10_rows), stream[rng_pos], now, today))
    /\ rng_pos' = rng_pos + 1
    /\ UNCHANGED <<today, stream, det_run, det_pc, now, datasets, Lifecycle, Synth>>

\* problem_10: the rows are written and the process ends
P10Return ==
    /\ det_pc = "p10_rows"
    /\ Len(p10_rows) = DetRows
    /\ datasets' = Append(datasets, p10_rows)
    /\ det_pc' = "exit"
    /\ p10_rows' = <<>>
    /\ now' = 0
    /\ rng_pos' = 0
    /\ UNCHANGED <<today, stream, det_run, Lifecycle, Synth>>

\* the second process, against another empty target
SecondRun ==
    /\ det_pc = "exit"
    /\ det_run = 1
    /\ det_run' = 2
    /\ det_pc' = "import"
    /\ UNCHANGED <<today, stream, rng_pos, now, p10_rows, datasets, Lifecycle, Synth>>

NextDet ==
    \/ Tick
    \/ SeedRandom
    \/ P10Now
    \/ P10Row
    \/ P10Return
    \/ SecondRun

SpecDet == InitDet /\ [][NextDet]_vars

-----------------------------------------------------------------------------
(* The rows of one generator call, value by value *)

\* the largest num_rows of a call whose rows are followed
MaxSynRows == 9

\* the generators whose rows are followed
SynGenerators == 1..NumProblems

\* the generators whose loop is "for batch_start in range(0, num_rows, batch_size)"
RangeGenerators == SynGenerators \ {5, 13}

\* the num_rows that fill a batch: exactly, and with one row more
BigRows == {batch_size, batch_size + 1}

\* the rows whose draw is followed; every other draw takes the likelier branch
HotRows(g, n) ==
    CASE n > MaxSynRows -> IF g = 1 THEN {1, batch_size, batch_size + 1} \cap 1..n
                           ELSE IF g = 13 THEN {} ELSE {Min(n, batch_size)}
      [] g \in {13, 15} -> 1..Min(n, 2)
      [] OTHER -> 1..n

\* the num_rows generator g is called with
SynRows(g) ==
    CASE g = 2 -> 0..Min(MaxSynRows, 4) \cup BigRows \cup {Problems(scales["tiny"])[2]}
      [] g = 5 -> 0..MaxSynRows
      [] g \in {13, 15} -> 0..Min(MaxSynRows, 3) \cup BigRows
      [] OTHER -> 0..MaxSynRows \cup BigRows

\* problem_05, per user: random.random() < 0.5, and random.randint(1, 3)
P5Draws == {[dup |-> FALSE, dupn |-> 1]} \cup [dup : {TRUE}, dupn : 1..3]

\* problem_02, per order: random.random() < 0.3, random.random() < 0.2, and
\* whether the random.randint calls return the top or the bottom of their range
P2Draws == [c_orphan : BOOLEAN, p_orphan : BOOLEAN, top : BOOLEAN]

\* problem_15, per transaction: random.randint(1, 1000), and
\* random.random() < 0.4
P15Draws == [acct_id : {1, 10, AccountRows}, pad : BOOLEAN]

\* what is drawn per row (or user) of generator g
DrawsOf(g) ==
    CASE g = 1 -> BOOLEAN
      [] g = 2 -> P2Draws
      [] g = 5 -> P5Draws
      [] g = 13 -> [cust : {1, 100}, prod : {1, 50}, top : BOOLEAN]
      [] g = 15 -> P15Draws
      [] OTHER -> {FALSE}

\* the draw that takes the likelier branch
Likely(g) ==
    CASE g = 1 -> FALSE
      [] g = 2 -> [c_orphan |-> FALSE, p_orphan |-> FALSE, top |-> FALSE]
      [] g = 5 -> [dup |-> FALSE, dupn |-> 1]
      [] g = 13 -> [cust |-> 1, prod |-> 1, top |-> FALSE]
      [] g = 15 -> [acct_id |-> 1, pad |-> FALSE]
      [] OTHER -> FALSE

\* the rows (or users) generator g draws for
DrawCount(g, n) == IF g = 5 THEN P5Users(n) ELSE n

\* the draws of one call of generator g with n rows
DrawSets(g, n) ==
    { [ i \in 1..DrawCount(g, n) |-> IF i \in HotRows(g, n) THEN f[i] ELSE Likely(g) ] :
        f \in [HotRows(g, n) \cap 1..DrawCount(g, n) -> DrawsOf(g)] }

\* problem_05: user i + 1 of base_users; the Faker values are those drawn for
\* this user
BaseUser(u) ==
    [user_id |-> u, username |-> <<"user_name", u>>, email |-> <<"email", u>>,
     phone |-> <<"phone_number", u>>, created_at |-> <<"date_time", u>>]

\* P5UserRows with the duplicates appended twice
P5UserRows_TwiceTheDuplicates(u, d) ==
    [ j \in 1..(1 + (IF d.dup THEN 2 * d.dupn ELSE 0)) |-> BaseUser(u) ]

\* problem_05: the original, then 1-3 duplicates when the draw succeeds
P5UserRows(u, d) ==
    [ j \in 1..(1 + (IF d.dup THEN d.dupn ELSE 0)) |-> BaseUser(u) ]

\* problem_01: the row of pass i; the Faker values are those drawn in pass c
P1Row(i, c) ==
    [customer_id |-> i + 1, first_name |-> c, last_name |-> c, email |-> c, created_at |-> c]

\* P1Rows with the duplicate built from a second set of Faker values
P1Rows_DuplicateRedrawn(i, d) ==
    IF d THEN <<P1Row(i, i), P1Row(i, i + num_rows)>> ELSE <<P1Row(i, i)>>

\* problem_01: the row, and the same row again when random.random() < 0.1
P1Rows(i, d) ==
    IF d THEN <<P1Row(i, i), P1Row(i, i)>> ELSE <<P1Row(i, i)>>

\* P2Products with 1000 products
P2Products_Thousand ==
    [ j \in 1..1000 |-> [product_name |-> j, price |-> RandInt(10, 500, FALSE)] ]

\* problem_02: the list "products"
P2Products ==
    [ j \in 1..ProductRows |-> [product_name |-> j, price |-> RandInt(10, 500, FALSE)] ]

\* problem_02: the order of pass i
P2Row(i, d) ==
    [customer_id |-> IF d.c_orphan THEN RandInt(900000, 999999, d.top)
                                   ELSE RandInt(1, 10000, d.top),
     product_id  |-> IF d.p_orphan THEN RandInt(500, 999, d.top)
                                   ELSE RandInt(1, 100, d.top),
     quantity    |-> RandInt(1, 10, d.top),
     order_date  |-> i]

\* str(n), n >= 0: the decimal digits, most significant first
RECURSIVE Str(_)
Str(n) == IF n < 10 THEN <<n>> ELSE Append(Str(n \div 10), n % 10)

\* f"{n:0wd}", n >= 0: zeros in front up to width w
ZeroPadded(n, w) ==
    IF Len(Str(n)) >= w THEN Str(n)
    ELSE [ j \in 1..(w - Len(Str(n))) |-> 0 ] \o Str(n)

\* CAST(text AS INTEGER) of a text of digits
RECURSIVE ToInteger(_)
ToInteger(t) ==
    IF t = <<>> THEN 0 ELSE 10 * ToInteger(SubSeq(t, 1, Len(t) - 1)) + t[Len(t)]

\* P15Accounts with the ids starting at 0
P15Accounts_FromZero ==
    [ j \in 1..AccountRows |->
        [account_id |-> j - 1, account_name |-> j, balance |-> RandInt(100, 100000, FALSE)] ]

\* problem_15: the list "accounts"
P15Accounts ==
    [ j \in 1..AccountRows |->
        [account_id |-> (j - 1) + 1, account_name |-> j, balance |-> RandInt(100, 100000, FALSE)] ]

\* problem_15: the transaction of pass i
P15Row(i, d) ==
    [txn_id     |-> i + 1,
     account_id |-> IF d.pad THEN ZeroPadded(d.acct_id, 10) ELSE Str(d.acct_id),
     amount     |-> RandInt(-1000, 1000, FALSE),
     txn_date   |-> i]

\* the list generator g seeds its second table with
SeedRows(g) ==
    CASE g = 2 -> P2Products
      [] g = 15 -> P15Accounts

\* problem_13: the lists "customers" and "products", built before the loop;
\* a Faker value is the number of the entry it was drawn for, a price is in
\* cents and alternates between the ends of its range
P13Customers ==
    [ c \in 1..100 |->
        [id |-> (c - 1) + 1, first |-> c, last |-> c, email |-> c, phone |-> c,
         addr1 |-> c, addr2 |-> c, city |-> c, state |-> c, zip |-> c,
         country |-> "USA", created |-> c] ]

P13Products ==
    [ q \in 1..50 |->
        [id |-> (q - 1) + 1, name |-> q, desc |-> q, cat |-> q, subcat |-> q,
         brand |-> q, price |-> RandInt(1000, 50000, q % 2 = 0),
         cost |-> RandInt(500, 25000, q % 2 = 0)] ]

\* P13Row with the customer drawn anew for each row
P13Row_CustomerPerRow(i, d) ==
    LET cust == [P13Customers[d.cust] EXCEPT !.email = 101 + i]
        prod == P13Products[d.prod]
        qty  == RandInt(1, 5, d.top)
    IN  [id |-> i + 1, customer |-> cust, product |-> prod, quantity |-> qty,
         line_total |-> prod.price * qty]

\* problem_13: the tuple of pass i: random.choice(customers),
\* random.choice(products), random.randint(1, 5); customer holds the twelve
\* customer_ columns, product the eight product_ columns
P13Row(i, d) ==
    LET cust == P13Customers[d.cust]
        prod == P13Products[d.prod]
        qty  == RandInt(1, 5, d.top)
    IN  [id |-> i + 1, customer |-> cust, product |-> prod, quantity |-> qty,
         line_total |-> prod.price * qty]

\* PlainRow numbering from 0
PlainRow_FromZero(g, i) ==
    CASE g = 3 -> [transaction_id |-> Str(i)]
      [] g = 8 -> [sku |-> ZeroPadded(i, 6)]
      [] g \in {4, 14} -> [pass |-> i]
      [] OTHER -> [id |-> i]

\* the row of pass i of the other generators, as its numbering column:
\* str(i + 1) in problem_03, f"SKU-{i + 1:06d}" in problem_08, none in
\* problem_04 and problem_14 (the key is AUTO_INCREMENT / SERIAL), i + 1 in
\* the others
PlainRow(g, i) ==
    CASE g = 3 -> [transaction_id |-> Str(i + 1)]
      [] g = 8 -> [sku |-> ZeroPadded(i + 1, 6)]
      [] g \in {4, 14} -> [pass |-> i]
      [] OTHER -> [id |-> i + 1]

\* what pass i of generator g appends to rows
RowsOf(g, i, d) ==
    CASE g = 1 -> P1Rows(i, d)
      [] g = 2 -> <<P2Row(i, d)>>
      [] g = 5 -> P5UserRows(i + 1, d)
      [] g = 13 -> <<P13Row(i, d)>>
      [] g = 15 -> <<P15Row(i, d)>>
      [] OTHER -> <<PlainRow(g, i)>>

\* the step of generator g's plan that follows c adapter calls
PlanOp(g, c) == GenPlan(g)[c + 1]

InitRows ==
    /\ cmd = "setup"
    /\ db_type = "postgres"
    /\ scale = "tiny"
    /\ rnd = [coin |-> "none", dupn |-> 1]
    /\ runs = 1
    /\ afterSetup = FALSE
    /\ committed = InitialTarget(db_type)
    /\ working = committed
    /\ pc = FreshLocals.pc
    /\ Fresh
    /\ DetOff
    /\ gen_id \in SynGenerators
    /\ num_rows \in SynRows(gen_id)
    /\ draws \in DrawSets(gen_id, num_rows)
    /\ syn_pc = PlanOp(gen_id, 0).op
    /\ row_i = 0
    /\ buf = <<>>
    /\ batches = <<>>
    /\ ref_rows = <<>>
    /\ calls = <<>>

\* db.execute("CREATE TABLE ...")
SynCreate ==
    /\ syn_pc = "create"
    /\ calls' = Append(calls, <<"execute", PlanOp(gen_id, Len(calls)).table>>)
    /\ syn_pc' = PlanOp(gen_id, Len(calls')).op
    /\ UNCHANGED <<gen_id, num_rows, draws, ref_rows, row_i, buf, batches, Det, Lifecycle>>

\* db.executemany(...) for the seeded table, before the loop
SeedTable ==
    /\ syn_pc = "fixed"
    /\ ref_rows' = SeedRows(gen_id)
    /\ calls' = Append(calls, <<"executemany", PlanOp(gen_id, Len(calls)).table>>)
    /\ syn_pc' = PlanOp(gen_id, Len(calls')).op
    /\ UNCHANGED <<gen_id, num_rows, draws, row_i, buf, batches, Det, Lifecycle>>

\* the batch_start of the pass of the outer loop under way
BatchStart == Len(batches) * batch_size

\* BatchEnd without the min
BatchEnd_Unclamped == BatchStart + batch_size

\* its batch_end
BatchEnd == Min(BatchStart + batch_size, num_rows)

\* one pass of "for i in range(batch_start, batch_end)"
RangeRow ==
    /\ gen_id \in RangeGenerators
    /\ syn_pc = "batches"
    /\ BatchStart < num_rows
    /\ row_i < BatchEnd
    /\ buf' = buf \o RowsOf(gen_id, row_i, draws[row_i + 1])
    /\ row_i' = row_i + 1
    /\ UNCHANGED <<gen_id, num_rows, draws, ref_rows, calls, syn_pc, batches, Det, Lifecycle>>

\* db.executemany(..., rows) at the end of a pass of the outer loop; the
\* next pass starts with rows = []
RangeFlush ==
    /\ gen_id \in RangeGenerators
    /\ syn_pc = "batches"
    /\ BatchStart < num_rows
    /\ row_i = BatchEnd
    /\ batches' = Append(batches, buf)
    /\ calls' = Append(calls, <<"executemany", MainTable(gen_id)>>)
    /\ buf' = <<>>
    /\ UNCHANGED <<gen_id, num_rows, draws, ref_rows, syn_pc, row_i, Det, Lifecycle>>

\* the outer loop is exhausted: db.commit()
RangeCommit ==
    /\ gen_id \in RangeGenerators
    /\ syn_pc = "batches"
    /\ BatchStart >= num_rows
    /\ calls' = Append(calls, <<"commit", "">>)
    /\ syn_pc' = "done"
    /\ UNCHANGED <<gen_id, num_rows, draws, ref_rows, row_i, buf, batches, Det, Lifecycle>>

\* problem_05 and problem_13: one pass of the loop that appends to rows and
\* hands them over once there are batch_size or more
AppendPass ==
    /\ gen_id \notin RangeGenerators
    /\ syn_pc = "batches"
    /\ row_i < DrawCount(gen_id, num_rows)
    /\ LET new == buf \o RowsOf(gen_id, row_i, draws[row_i + 1])
       IN  IF Len(new) >= batch_size
           THEN /\ batches' = Append(batches, new)
                /\ calls' = Append(calls, <<"executemany", MainTable(gen_id)>>)
                /\ buf' = <<>>
           ELSE buf' = new /\ UNCHANGED <<batches, calls>>
    /\ row_i' = row_i + 1
    /\ UNCHANGED <<gen_id, num_rows, draws, ref_rows, syn_pc, Det, Lifecycle>>

\* problem_05 and problem_13: "if rows: db.executemany(...)", then db.commit()
FlushRemainder ==
    /\ gen_id \notin RangeGenerators
    /\ syn_pc = "batches"
    /\ row_i = DrawCount(gen_id, num_rows)
    /\ batches' = IF buf # <<>> THEN Append(batches, buf) ELSE batches
    /\ calls' = (IF buf # <<>> THEN Append(calls, <<"executemany", MainTable(gen_id)>>) ELSE calls)
                    \o << <<"commit", "">> >>
    /\ buf' = <<>>
    /\ syn_pc' = "done"
    /\ UNCHANGED <<gen_id, num_rows, draws, ref_rows, row_i, Det, Lifecycle>>

\* the rows the table holds: every list handed to executemany, in order
RECURSIVE Concat(_)
Concat(bs) == IF bs = <<>> THEN <<>> ELSE Head(bs) \o Concat(Tail(bs))

Written == Concat(batches)

NextRows ==
    \/ SynCreate
    \/ SeedTable
    \/ RangeRow
    \/ RangeFlush
    \/ RangeCommit
    \/ AppendPass
    \/ FlushRemainder

SpecRows == InitRows /\ [][NextRows]_vars

-----------------------------------------------------------------------------
(* Properties: row counts and the scale controller (SpecGen) *)

\* the base row count the documentation gives for a scale token
DocumentedBase(s) ==
    CASE s = "tiny"   -> 100
      [] s = "small"  -> 10000
      [] s = "medium" -> 100000
      [] s = "large"  -> 500000
      [] s = "xlarge" -> 1000000
      [] OTHER        -> 10000

\* the documented row count of problem i at scale s
DocumentedRows(s, i) ==
    CASE i = 13 -> 2 * DocumentedBase(s)
      [] i = 14 -> 5 * DocumentedBase(s)
      [] OTHER  -> DocumentedBase(s)

\* generator k has returned from its commit
GeneratorReturned == pc = "s_loop" /\ k >= 1

\* the rows of generator i's main table in the target
MainRows(db, i) == db.tables[TableId(db_type, MainTable(i))]

\* C1 as stated: every generator, whatever the scale token and the random
\* draws, leaves exactly the documented number of rows (base, 2*base for
\* problem 13, 5*base for problem 14) in its main table.
C1_ExactRowsForAll ==
    GeneratorReturned => MainRows(committed, k) = DocumentedRows(scale, k)

\* C1 amended: the row count handed to the generator is the documented one;
\* generators 2-4 and 6-15 leave exactly that many rows in their main table,
\* generator 1 between N and 2N rows and generator 5 between N div 3 and
\* 4 * (N div 3) rows, depending on the random draws.
C1_RowCounts ==
    GeneratorReturned =>
        LET n    == DocumentedRows(scale, k)
            rows == MainRows(committed, k)
        IN  /\ NumRows = n
            /\ CASE k = 1 -> n <= rows /\ rows <= 2 * n
                 [] k = 5 -> n \div 3 <= rows /\ rows <= 4 * (n \div 3)
                 [] OTHER -> rows = n

\* problem 1 at medium has returned with twice the rows it was handed
C1_Witness ==
    /\ GeneratorReturned
    /\ k = 1 /\ scale = "medium" /\ NumRows = 100000
    /\ MainRows(committed, 1) = 200000

\* C8: the scale controller maps tiny to 100, small to 10000, medium to
\* 100000, large to 500000, xlarge to 1000000 and any other token to 10000;
\* every generator is handed base rows, except 2*base for problem 13 and
\* 5*base for problem 14.
C8_ScaleMapping ==
    pc # "s_scale" =>
        /\ base_rows = DocumentedBase(scale)
        /\ DOMAIN problems = 1..15
        /\ \A i \in 1..15 :
              problems[i] = IF i = 13 THEN 2 * base_rows
                            ELSE IF i = 14 THEN 5 * base_rows
                            ELSE base_rows
        /\ pc = "gen" => LoopLimit(k, NumRows) = LoopLimit(k, DocumentedRows(scale, k))

\* a token outside the five reaches problem 14 with 50000 rows
C8_Witness ==
    /\ pc = "gen"
    /\ scale = "bogus"
    /\ k = 14
    /\ NumRows = 50000
    /\ batch_start = 49000

-----------------------------------------------------------------------------
(* Properties: the lifecycle of a process (Spec) *)

\* the positions of a process once an exception has left the try block
Unwinding == {"except", "finally", "close_cursor", "close_connection", "m_return", "exit"}

\* C2: in every run of setup or teardown, however it ends, close() is called
\* exactly once, it is the run's last adapter operation, and no adapter
\* operation follows it
C2_CloseOnceAndLast ==
    cmd # "diagnose" =>
        /\ closeCalls <= 1
        /\ ~opAfterClose
        /\ pc = "exit" => closeCalls = 1 /\ lastOp = "close"

\* a setup interrupted inside generator 7 has called close() once, as its last
\* operation
C2_Witness ==
    /\ cmd = "setup" /\ pc = "exit" /\ k = 7 /\ failed
    /\ exit_code = 130 /\ closeCalls = 1 /\ lastOp = "close"

\* C3: a teardown that succeeds on a target a completed setup has filled leaves
\* neither the schema nor a table under the tool's namespace or prefix
C3_TeardownLeavesNothing ==
    (afterSetup /\ cmd = "teardown" /\ pc = "exit" /\ exit_code = 0)
        => WorkshopObjects(db_type, committed) = {}

\* the mysql teardown that follows a completed setup has returned 0; what is
\* left in the database is not the tool's
C3_Witness ==
    /\ afterSetup /\ runs = 2 /\ cmd = "teardown" /\ db_type = "mysql"
    /\ pc = "exit" /\ exit_code = 0
    /\ TableExists(committed, [ns |-> "", name |-> <<"o", "t", "h", "e", "r">>])

\* the rows generator i leaves in its main table when it is handed n rows
TotalRows(i, r, n) ==
    CASE i = 1 -> n + CoinCount(r, 1, n)
      [] i = 5 -> P5Rows(r, 0, P5Users(n))
      [] OTHER -> n

\* the rows generator i leaves in table t
LeftIn(i, t) ==
    CASE t = MainTable(i)       -> TotalRows(i, rnd, problems[i])
      [] t = "products"         -> ProductRows
      [] t = "accounts_int_id"  -> AccountRows

\* the committed target holds all generator i wrote
Kept(i) ==
    \A t \in GenTables(i) :
        /\ TableExists(committed, TableId(db_type, t))
        /\ committed.tables[TableId(db_type, t)] = LeftIn(i, t)

\* C4: once a statement has failed inside generator k, the tables and rows of
\* generators 1..k-1 are and stay committed, no later generator is started, and
\* the run issues no further statement: nothing is rolled back or dropped
C4_FailureKeepsEarlierWork ==
    /\ []((cmd = "setup" /\ failed /\ k >= 1) =>
            /\ \A i \in 1..(k - 1) : Kept(i)
            /\ pc \in Unwinding
            /\ ~stmtAfterFail)
    /\ [][(cmd = "setup" /\ failed /\ k >= 1 /\ runs' = runs) =>
            /\ k' = k
            /\ committed' = committed
            /\ pc' # "gen"]_vars

\* setup has ended after a failure in generator 6; customers and the duplicated
\* users of generators 1 and 5 are in the target
C4_Witness ==
    /\ cmd = "setup" /\ failed /\ k = 6 /\ pc = "exit" /\ scale = "small"
    /\ rnd.coin = "first"
    /\ MainRows(committed, 1) = 10001
    /\ MainRows(committed, 5) = 3336

\* C5: no batch is handed to executemany twice, no statement follows a
\* statement that raised, and the exception leaves the generator, reaches
\* setup_workshop's handlers and makes main return non-zero
C5_NoRetry ==
    /\ lastBatch[3] <= 1
    /\ ~stmtAfterFail
    /\ failed => /\ pc \in Unwinding
                 /\ gpc = 0
                 /\ exc # "none"
                 /\ pc = "exit" => exit_code \in {1, 130}

\* an executemany of generator 13 has just raised: the except clause is next
C5_Witness ==
    /\ cmd = "setup" /\ failed /\ k = 13 /\ lastOp = "executemany"
    /\ pc = "except" /\ exc = "Exception"

C7_CloseOnNullHandles ==
    /\ pc = "close_cursor" => cursor # "None"
    /\ pc = "close_connection" => connection # "None"
    /\ (closeCalls = 1 /\ connection = "None") =>
            /\ cursor = "None"
            /\ ~closeRaised
            /\ pc \in {"m_return", "exit"}
    /\ (closeCalls = 1 /\ cursor = "None") => pc \in {"close_connection", "m_return", "exit"}

\* connect() failed between its two assignments; close() has closed the
\* connection and left the cursor None
C7_Witness ==
    /\ pc = "exit" /\ closeCalls = 1 /\ ~closeRaised
    /\ connection = "closed" /\ cursor = "None"

\* the tool's namespace is there for the generators
NamespaceReady ==
    db_type # "mysql" => /\ SCHEMA_NAME \in working.schemas
                         /\ SCHEMA_NAME \in committed.schemas

\* C9: setup connects, then creates the schema, then calls the generators 1..15
\* one after the other, each once and after the one before has returned; a
\* generator runs only on an open connection with the schema created, and all
\* fifteen have run when setup succeeds
C9_FixedOrder ==
    /\ [](/\ pc \in {"create_schema", "create_schema_commit", "s_loop", "gen"}
                => connection = "open" /\ cursor = "open" /\ exc = "none" /\ ~failed
          /\ pc \in {"s_loop", "gen"} => cmd = "setup" /\ NamespaceReady
          /\ pc \in {"connect", "connect_cursor", "create_schema", "create_schema_commit"}
                => k = 0 /\ lastOp \notin {"executemany"}
          /\ gpc # 0 <=> pc = "gen"
          /\ pc = "s_loop" => \A i \in 1..k : Kept(i)
          /\ (cmd = "setup" /\ pc = "exit" /\ exit_code = 0) => k = NumProblems)
    /\ [][(k' # k /\ runs' = runs) =>
            /\ k' = k + 1
            /\ pc = "s_loop" /\ pc' = "gen"
            /\ gpc = 0 /\ gpc' = 1]_vars

\* setup has returned 0 with all fifteen generators run
C9_Witness ==
    /\ cmd = "setup" /\ pc = "exit" /\ exit_code = 0 /\ k = NumProblems
    /\ db_type = "redshift" /\ Kept(15)

-----------------------------------------------------------------------------
(* Properties: reproducibility (SpecDet) *)

\* C10: with the seed fixed, two full runs produce the same rows, whenever each
\* of them is started
C10_SameDataset == Len(datasets) = 2 => datasets[1] = datasets[2]

-----------------------------------------------------------------------------
(* Properties: the tables of a completed setup (Spec) *)

\* the tables of the target that are under the tool's schema or prefix
WorkshopTables(t, db) == { id \in WorkshopObjects(t, db) : id.name # <<>> }

\* every table a generator names
AllGenTables == UNION { GenTables(i) : i \in 1..NumProblems }

\* C11: a setup that has succeeded leaves exactly 17 tables under the tool's
\* schema or prefix, the 15 main tables and products and accounts_int_id; the
\* names differ pairwise and a generator touches no table of another one
C11_SeventeenTables ==
    (cmd = "setup" /\ pc = "exit" /\ exit_code = 0) =>
        /\ WorkshopTables(db_type, committed)
             = { TableId(db_type, t) : t \in AllGenTables }
        /\ Cardinality(WorkshopTables(db_type, committed)) = 17
        /\ AllGenTables = { MainTable(i) : i \in 1..NumProblems }
                            \cup {"products", "accounts_int_id"}
        /\ \A i, j \in 1..NumProblems : i # j => GenTables(i) \cap GenTables(j) = {}
        /\ \A i \in 1..NumProblems : \A j \in 1..Len(GenPlan(i)) :
                GenPlan(i)[j].op # "commit" => GenPlan(i)[j].table \in GenTables(i)

\* a mysql setup has returned 0: 17 prefixed tables next to the two tables
\* that were there before
C11_Witness ==
    /\ cmd = "setup" /\ pc = "exit" /\ exit_code = 0 /\ db_type = "mysql"
    /\ Cardinality(WorkshopTables(db_type, committed)) = 17
    /\ Cardinality(DOMAIN committed.tables) = 19

-----------------------------------------------------------------------------
(* Properties: diagnose (Spec) *)

\* C12: for every backend kind a diagnose that completes has written exactly
\* 15 entries, problem_01 to problem_15 in that order, each with a query that
\* is not empty and in which no {prefix} placeholder is left
C12_DiagnoseEntries ==
    (cmd = "diagnose" /\ pc = "exit" /\ exit_code = 0) =>
        /\ Len(shown) = 15
        /\ [ i \in 1..15 |-> shown[i].id ]
             = << "problem_01", "problem_02", "problem_03", "problem_04",
                  "problem_05", "problem_06", "problem_07", "problem_08",
                  "problem_09", "problem_10", "problem_11", "problem_12",
                  "problem_13", "problem_14", "problem_15" >>
        /\ \A i \in 1..15 :
              /\ shown[i].query # <<>>
              /\ \A j \in 1..Len(shown[i].query) : shown[i].query[j] # "{prefix}"

\* diagnose for mysql has returned 0; the second entry names bdw_orders_no_fk
C12_Witness ==
    /\ cmd = "diagnose" /\ pc = "exit" /\ exit_code = 0 /\ db_type = "mysql"
    /\ Len(shown) = 15
    /\ SubSeq(shown[2].query, 2, 6) = <<"b", "d", "w", "_", "orders_no_fk">>

-----------------------------------------------------------------------------
(* Properties: batches (SpecGen) *)

\* C13: no batch a generator hands to executemany for its main table holds
\* more than 1000 rows
C13_BatchAtMost1000 == lastBatch[4] <= 1000

-----------------------------------------------------------------------------
(* Properties: the commit of a generator (Spec) *)

\* the rows of table t that are committed, none if the table is not
CommittedRows(t) ==
    IF TableExists(committed, TableId(db_type, t))
    THEN committed.tables[TableId(db_type, t)] ELSE 0

\* an executemany of generator k has just raised
BatchFailed == cmd = "setup" /\ failed /\ k >= 1 /\ lastOp = "executemany"

\* C14 as stated, in its last part: a generator that fails in a batch has
\* committed nothing, not a row of any of its tables
C14_FailedCommitsNothing ==
    BatchFailed => \A t \in GenTables(k) : CommittedRows(t) = 0

\* C14: a generator calls commit() once, as its last adapter call, after its
\* CREATE TABLEs and all its executemany; no row of its main table is
\* committed before that, and none is when a batch fails.  Where DDL is
\* transactional a failed generator leaves nothing; on mysql its tables, and
\* the rows inserted before a later CREATE TABLE, are already durable
C14_OneCommitLast ==
    /\ []((pc = "s_loop" /\ k >= 1) => lastOp = "commit" /\ Kept(k))
    /\ []((pc = "gen" /\ Cur.op \in {"batches", "commit"})
            => CommittedRows(MainTable(k)) = 0)
    /\ []((pc = "gen" /\ Cur.op = "commit")
            => working.tables[TableId(db_type, MainTable(k))]
                 = TotalRows(k, rnd, NumRows))
    /\ [](BatchFailed =>
            /\ CommittedRows(MainTable(k)) = 0
            /\ db_type # "mysql" =>
                  \A t \in GenTables(k) : ~TableExists(committed, TableId(db_type, t)))
    /\ [][(pc = "gen" /\ lastOp' = "commit") =>
            /\ Cur.op = "commit"
            /\ gpc = Len(GenPlan(k))
            /\ pc' # "gen"]_vars

\* on mysql a batch of orders has failed: the 100 products are committed, the
\* orders table is there and empty
C14_Witness ==
    /\ BatchFailed /\ k = 2 /\ db_type = "mysql"
    /\ CommittedRows("products") = 100
    /\ TableExists(committed, TableId(db_type, "orders_no_fk"))
    /\ CommittedRows("orders_no_fk") = 0

-----------------------------------------------------------------------------
(* Properties: the rows of generator 5 *)

\* the key of diagnostic 5's GROUP BY
GroupKey(r) == <<r.user_id, r.username, r.email>>

\* the positions of the written rows whose key is that of row i
Group(i) == { j \in DOMAIN Written : GroupKey(Written[j]) = GroupKey(Written[i]) }

\* C15: whenever generator 5 has returned from a call with row_count > 0, the
\* written rows hold at least one (user_id, username, email) group of more
\* than one row.
C15_SomeDuplicateGroup ==
    (gen_id = 5 /\ syn_pc = "done" /\ num_rows > 0)
        => \E i \in DOMAIN Written : Cardinality(Group(i)) > 1

\* C16: when generator 5 has returned, no (user_id, username, email) group
\* holds more than 4 rows, every base user_id in 1..row_count \div 3 is
\* present, and the rows of a group are adjacent: the duplicates directly
\* follow their original.
C16_GroupsBoundedAndAdjacent ==
    (gen_id = 5 /\ syn_pc = "done")
        => /\ \A i \in DOMAIN Written : Cardinality(Group(i)) <= 4
           /\ \A u \in 1..(num_rows \div 3) :
                 \E i \in DOMAIN Written : Written[i].user_id = u
           /\ \A i \in DOMAIN Written : \A j \in Group(i) :
                 \A m \in DOMAIN Written :
                    (i <= m /\ m <= j) => m \in Group(i)
           /\ \A i \in DOMAIN Written :
                 i = 1 \/ Written[i].user_id \in {Written[i - 1].user_id, Written[i - 1].user_id + 1}

\* nine rows asked: three users, the second written four times in a row
C16_Witness ==
    /\ gen_id = 5
    /\ syn_pc = "done"
    /\ num_rows = 9
    /\ Len(Written) = 6
    /\ Group(2) = 2..5

-----------------------------------------------------------------------------
(* Properties: the rows of generator 1 *)

\* C20: when generator 1 has returned from a call for N rows, the written
\* customer ids start at 1, end at N and never decrease or skip (so every id
\* of 1..N is there, in ascending order), no id is written three times, a
\* second occurrence equals the row before it in all five columns and lies in
\* the same list handed to executemany, and the table has N..2N rows.
C20_OnceOrTwiceAdjacent ==
    (gen_id = 1 /\ syn_pc = "done")
        => LET W == Written
               N == num_rows
           IN  /\ N <= Len(W) /\ Len(W) <= 2 * N
               /\ N > 0 => W[1].customer_id = 1 /\ W[Len(W)].customer_id = N
               /\ \A j \in 2..Len(W) :
                     /\ W[j].customer_id \in {W[j - 1].customer_id, W[j - 1].customer_id + 1}
                     /\ W[j].customer_id = W[j - 1].customer_id => W[j] = W[j - 1]
               /\ \A j \in 3..Len(W) : W[j].customer_id # W[j - 2].customer_id
               /\ \A b \in 2..Len(batches) :
                     batches[b][1].customer_id
                        # batches[b - 1][Len(batches[b - 1])].customer_id

\* 1000 rows asked: row 1000 is written twice at the end of the only list,
\* which so holds 1001 rows
C20_Witness ==
    /\ gen_id = 1
    /\ syn_pc = "done"
    /\ num_rows = batch_size
    /\ Len(batches) = 1
    /\ Len(batches[1]) = batch_size + 1
    /\ batches[1][batch_size + 1] = batches[1][batch_size]

-----------------------------------------------------------------------------
(* Properties: the rows of generator 2 *)

\* the product_id values of the products table: AUTO_INCREMENT / SERIAL
\* numbers the seeded rows from 1
ProductIds == DOMAIN ref_rows

\* C18: in a call of generator 2, no order is handed over before the products
\* are, the products table holds exactly 100 rows when the call returns
\* (row_count 0 included), every order's customer_id lies in 1..10000 or in
\* 900000..999999 and its product_id in 1..100 or in 500..999, and an id of
\* the second range is neither one of 1..10000 nor a seeded product's id.
C18_OrphanRanges ==
    gen_id = 2 =>
        /\ (batches # <<>> \/ buf # <<>> \/ syn_pc = "done") => Len(ref_rows) = 100
        /\ \A b \in DOMAIN batches : \A j \in DOMAIN batches[b] :
              LET r == batches[b][j]
              IN  /\ r.customer_id \in 1..10000 \/ r.customer_id \in 900000..999999
                  /\ r.product_id \in 1..100 \/ r.product_id \in 500..999
                  /\ r.customer_id \in 900000..999999 => r.customer_id \notin 1..10000
                  /\ r.product_id \in 500..999 => r.product_id \notin ProductIds
                  /\ r.product_id \in 1..100 => r.product_id \in ProductIds

\* one call whose four orders show the four combinations of a present or
\* missing customer with a present or missing product
C18_Witness ==
    /\ gen_id = 2
    /\ syn_pc = "done"
    /\ num_rows = 4
    /\ Len(ref_rows) = 100
    /\ Len(batches) = 1
    /\ LET b == batches[1]
       IN  /\ b[1].customer_id = 1      /\ b[1].product_id = 1
           /\ b[2].customer_id = 10000  /\ b[2].product_id = 999
           /\ b[3].customer_id = 900000 /\ b[3].product_id = 1
           /\ b[4].customer_id = 999999 /\ b[4].product_id = 999

-----------------------------------------------------------------------------
(* Properties: the rows of generator 15 *)

\* the accounts whose id, rendered as text, is the text t
TextMatches(t) == { a \in DOMAIN ref_rows : Str(ref_rows[a].account_id) = t }

\* the accounts whose id is the integer the text t converts to
CastMatches(t) == { a \in DOMAIN ref_rows : ref_rows[a].account_id = ToInteger(t) }

\* C17: when generator 15 has returned, a transaction whose account_id text
\* starts with '0' equals the rendering of no account's id, while its
\* conversion to an integer is in 1..1000 and is the id of exactly one
\* account; a transaction whose text does not start with '0' equals the
\* rendering of exactly one account's id.
C17_PaddedIdsJoinOnlyByCast ==
    (gen_id = 15 /\ syn_pc = "done") =>
        \A j \in DOMAIN Written :
            LET t == Written[j].account_id
            IN  IF t[1] = 0
                THEN /\ TextMatches(t) = {}
                     /\ ToInteger(t) \in 1..1000
                     /\ Cardinality(CastMatches(t)) = 1
                ELSE Cardinality(TextMatches(t)) = 1

\* two transactions of account 1000: '0000001000', then '1000'
C17_Witness ==
    /\ gen_id = 15
    /\ syn_pc = "done"
    /\ num_rows = 2
    /\ Written[1].account_id = <<0, 0, 0, 0, 0, 0, 1, 0, 0, 0>>
    /\ Written[2].account_id = <<1, 0, 0, 0>>
    /\ CastMatches(Written[1].account_id) = {1000}

-----------------------------------------------------------------------------
(* Properties: the batches of the generators that do not duplicate rows *)

\* the sequential id of a written row: the column that carries it, or, where
\* the key is AUTO_INCREMENT / SERIAL, its position among the rows written
RowId(g, r, pos) ==
    CASE g \in {2, 4, 14} -> pos
      [] g = 3  -> ToInteger(r.transaction_id)
      [] g = 8  -> ToInteger(r.sku)
      [] g = 15 -> r.txn_id
      [] OTHER  -> r.id

\* C19: when one of generators 2-4 and 6-15 has returned, the lists it handed
\* over for its main table hold row_count rows in all, every list but the last
\* holds exactly 1000 and none is empty, the ids run 1..row_count in the order
\* handed over, the main table was created and commit was the last call; with
\* row_count 0 nothing was handed over for the main table.
C19_BatchesPartitionRows ==
    (gen_id \in (2..4) \cup (6..15) /\ syn_pc = "done") =>
        /\ Len(Written) = num_rows
        /\ \A b \in DOMAIN batches :
              /\ Len(batches[b]) >= 1
              /\ b < Len(batches) => Len(batches[b]) = 1000
              /\ Len(batches[b]) <= 1000
              /\ \A j \in DOMAIN batches[b] :
                    RowId(gen_id, batches[b][j], (b - 1) * 1000 + j) = (b - 1) * 1000 + j
        /\ \E c \in DOMAIN calls : calls[c] = <<"execute", MainTable(gen_id)>>
        /\ calls[Len(calls)] = <<"commit", "">>
        /\ \A c \in 1..(Len(calls) - 1) : calls[c][1] # "commit"
        /\ num_rows = 0 =>
              /\ batches = <<>>
              /\ \A c \in DOMAIN calls : calls[c] # <<"executemany", MainTable(gen_id)>>

\* problem_13 asked for 1001 rows: a list of 1000 rows, then one of 1 row
\* holding id 1001
C19_Witness ==
    /\ gen_id = 13
    /\ syn_pc = "done"
    /\ num_rows = 1001
    /\ Len(batches) = 2
    /\ Len(batches[1]) = 1000
    /\ Len(batches[2]) = 1
    /\ batches[2][1].id = 1001

-----------------------------------------------------------------------------
(* Properties: the rows of generator 10 (SpecDet) *)

\* the column a defect kind targets is out of range in row r on day t
OutOfRange(kind, r, t) ==
    CASE kind = "negative_price"    -> r.unit_price < 0
      [] kind = "negative_quantity" -> r.quantity < 0
      [] kind = "huge_discount"     -> r.discount_percent > 100
      [] kind = "future_date"       -> r.sale_date > t
      [] kind = "impossible_age"    -> r.customer_age \in {-5, 0, 150, 999}
      [] kind = "bad_rating"        -> r.rating \in {-1, 0, 6, 10}

\* the column a defect kind targets is in range in row r on day t
InRange(kind, r, t) ==
    CASE kind = "negative_price"    -> r.unit_price \in 10..500
      [] kind = "negative_quantity" -> r.quantity \in 1..10
      [] kind = "huge_discount"     -> r.discount_percent \in 0..30
      [] kind = "future_date"       -> r.sale_date <= t
      [] kind = "impossible_age"    -> r.customer_age \in 18..80
      [] kind = "bad_rating"        -> r.rating \in 1..5

\* row r, drawn as d, has exactly the defect of d on day t
OneDefect(r, d, t, kinds) ==
    \A kind \in kinds :
        IF d.bad_type = kind THEN OutOfRange(kind, r, t) ELSE InRange(kind, r, t)

\* C21: each row generator 10 appends has the column of its defect kind out of
\* range and the five other columns in range, on the day it is built; a row
\* without defect has all six in range.
C21_OneDefectOneColumn ==
    [][Len(p10_rows') = Len(p10_rows) + 1
         => OneDefect(p10_rows'[Len(p10_rows')], stream[rng_pos], today, BadTypes)]_vars

\* the problem_10 diagnostic query counts row r on day t (CURRENT_DATE)
Counted(r, t) ==
    \/ r.unit_price < 0
    \/ r.quantity < 0
    \/ r.discount_percent > 100
    \/ r.sale_date > t
    \/ r.customer_age < 0 \/ r.customer_age > 120
    \/ r.rating < 1 \/ r.rating > 5

\* C26: whenever the diagnostic is run on the rows of a finished run, it
\* counts every row generator 10 corrupted and no row it left good.
C26_DiagnosticCountsCorrupted ==
    \A run \in DOMAIN datasets : \A i \in DOMAIN datasets[run] :
        Counted(datasets[run][i], today) <=> stream[i].bad_type # "none"

-----------------------------------------------------------------------------
(* Properties: the rows of generator 13 (SpecRows) *)

\* C22: when generator 13 has returned, it has written row_count rows, each
\* with customer_id in 1..100, product_id in 1..50, quantity in 1..5 and
\* line_total = product_unit_price * quantity; two rows with the same
\* customer_id agree on every customer_ column and two rows with the same
\* product_id on every product_ column.
C22_RepeatedCustomersAndProducts ==
    (gen_id = 13 /\ syn_pc = "done") =>
        /\ Len(Written) = num_rows
        /\ \A b \in DOMAIN batches : \A j \in DOMAIN batches[b] :
              LET r == batches[b][j]
              IN  /\ r.customer.id \in 1..100
                  /\ r.product.id \in 1..50
                  /\ r.quantity \in 1..5
                  /\ r.line_total = r.product.price * r.quantity
                  /\ \A b2 \in DOMAIN batches : \A j2 \in DOMAIN batches[b2] :
                        LET s == batches[b2][j2]
                        IN  /\ s.customer.id = r.customer.id => s.customer = r.customer
                            /\ s.product.id = r.product.id => s.product = r.product

\* three rows: customer 100 with product 50 twice, then customer 1 with
\* product 1
C22_Witness ==
    /\ gen_id = 13
    /\ syn_pc = "done"
    /\ num_rows = 3
    /\ Written[1].customer.id = 100 /\ Written[1].product.id = 50
    /\ Written[2].customer = Written[1].customer
    /\ Written[2].product = Written[1].product
    /\ Written[1].quantity = 5 /\ Written[2].quantity = 1
    /\ Written[3].customer.id = 1

-----------------------------------------------------------------------------
(* Properties: names and namespaces (Spec) *)

\* C23: on every backend, each table the tool has created is named by the
\* adapter's get_table_prefix() followed by the bare name of a generator's
\* table, and is among what the same backend's drop_schema removes: a table
\* of schema bad_data_workshop, or on mysql one the LIKE 'bdw_%' query selects.
C23_CreatedInsideNamespace ==
    \A id \in (DOMAIN working.tables) \ ForeignTables(db_type) :
        /\ \E bare \in AllGenTables :
              id = Resolve(get_table_prefix(db_type) \o <<bare>>)
        /\ IF db_type = "mysql"
           THEN id \in SelectPrefixed(working)
           ELSE ~TableExists(DropSchemaCascade(working), id)

\* a postgres setup is filling its last table, bad_data_workshop.transactions_str_id
C23_Witness ==
    /\ cmd = "setup" /\ db_type = "postgres" /\ pc = "gen" /\ k = NumProblems
    /\ TableExists(working, [ns |-> SCHEMA_NAME, name |-> <<"transactions_str_id">>])
    /\ working.tables[[ns |-> SCHEMA_NAME, name |-> <<"transactions_str_id">>]] > 0

\* C24: on mysql, a table of the current database whose name does not begin
\* with the four characters 'bdw_' is still there, with its rows, whatever the
\* tool has done.
C24_OnlyPrefixedDropped ==
    db_type = "mysql" =>
        \A id \in DOMAIN InitialTarget("mysql").tables :
            SubSeq(id.name, 1, 4) # <<"b", "d", "w", "_">>
                => /\ TableExists(working, id)
                   /\ working.tables[id] = InitialTarget("mysql").tables[id]

-----------------------------------------------------------------------------
(* Properties: orders against the customers of the same run (SpecRows) *)

\* the customer_id values generator 1 writes when it is handed n rows
CustomersLoaded(n) == { P1Row(i, i).customer_id : i \in 0..(n - 1) }

\* C25: when generator 2 has returned from the call a scale token gives it,
\* an order's customer_id is absent from the customers_no_pk of the same run,
\* and so counted by the problem_02 diagnostic, exactly when it was drawn
\* from 900000..999999.
C25_ValidCustomersExist ==
    \A s \in ScaleTokens :
        (gen_id = 2 /\ syn_pc = "done" /\ num_rows = Problems(ScaleBase(s))[2]) =>
            \A b \in DOMAIN batches : \A j \in DOMAIN batches[b] :
                batches[b][j].customer_id \notin CustomersLoaded(Problems(ScaleBase(s))[1])
                    <=> batches[b][j].customer_id \in 900000..999999

-----------------------------------------------------------------------------
(* Properties: the prefix of the rendered queries (Spec) *)

\* C27: for every backend kind each entry diagnose writes is its template with
\* every {prefix} replaced by get_table_prefix() of that backend's adapter, so
\* each table the entry names resolves to the table a setup on that backend
\* creates for the same bare name
C27_DiagnosePrefixIsAdapterPrefix ==
    cmd = "diagnose" =>
        \A i \in DOMAIN shown :
            /\ shown[i].query
                 = Replace(DIAGNOSTIC_QUERIES[i].query, "{prefix}", get_table_prefix(db_type))
            /\ LET w == Len(get_table_prefix(db_type)) + 2
               IN  \A j \in 1..Len(QueryTables[i]) :
                      /\ QueryTables[i][j] \in AllGenTables
                      /\ Resolve(SubSeq(shown[i].query, (j - 1) * w + 2, j * w))
                           = TableId(db_type, QueryTables[i][j])

\* diagnose for redshift has returned 0; the last entry names
\* bad_data_workshop.accounts_int_id first
C27_Witness ==
    /\ cmd = "diagnose" /\ pc = "exit" /\ exit_code = 0 /\ db_type = "redshift"
    /\ Len(shown) = 15
    /\ SubSeq(shown[15].query, 2, 4) = <<SCHEMA_NAME, ".", "accounts_int_id">>

-----------------------------------------------------------------------------
(* Properties: the catalog and the generators name the same tables (Spec) *)

\* C28: every table a query template names after {prefix} is one of the 17
\* tables a successful setup has created, and the main table of generator i
\* is named by the catalog entry of problem i
C28_TemplatesNameCreatedTables ==
    (cmd = "setup" /\ pc = "exit" /\ exit_code = 0) =>
        /\ Len(DIAGNOSTIC_QUERIES) = NumProblems
        /\ Cardinality(AllGenTables) = 17
        /\ \A i \in 1..NumProblems :
              /\ DIAGNOSTIC_QUERIES[i].query = Template(QueryTables[i])
              /\ \A j \in 1..Len(QueryTables[i]) :
                    /\ QueryTables[i][j] \in AllGenTables
                    /\ TableExists(committed, TableId(db_type, QueryTables[i][j]))
              /\ \E j \in 1..Len(QueryTables[i]) : QueryTables[i][j] = MainTable(i)

\* a postgres setup has returned 0: the three tables the last template names
\* are tables of the workshop schema
C28_Witness ==
    /\ cmd = "setup" /\ pc = "exit" /\ exit_code = 0 /\ db_type = "postgres"
    /\ \A j \in 1..3 :
          [ns |-> SCHEMA_NAME, name |-> <<QueryTables[15][j]>>] \in DOMAIN committed.tables

-----------------------------------------------------------------------------
(* Properties: setup on a target that is already set up (Spec) *)

\* the run that follows a completed setup is a setup again
SecondSetup == afterSetup /\ runs = 2 /\ cmd = "setup"

-----------------------------------------------------------------------------
(* Properties: teardown on a target without workshop objects (Spec) *)

\* the target holds neither the workshop schema nor a workshop table
Clean(t, db) == WorkshopObjects(t, db) = {} /\ SCHEMA_NAME \notin db.schemas

\* C30: a teardown on a target with no workshop objects selects no table to
\* drop, changes nothing in the target, and when it returns 0 it has called
\* close() once as its last operation and the target still holds no workshop
\* object
C30_TeardownIdempotent ==
    /\ [][(/\ cmd = "teardown" /\ runs' = runs
           /\ Clean(db_type, committed) /\ Clean(db_type, working)
           /\ to_drop = <<>>) =>
            /\ to_drop' = <<>>
            /\ committed' = committed
            /\ working' = working]_vars
    /\ []((cmd = "teardown" /\ pc = "exit" /\ exit_code = 0) =>
            /\ Clean(db_type, committed)
            /\ closeCalls = 1 /\ lastOp = "close")

====
